---- MODULE Spec2Model ----
(***************************************************************************)
(* Model of scripts/scrape.py: the navigation retry/fallback protocol      *)
(* (navigate_with_retries), the collection loop of scrape (query ->        *)
(* extract -> merge -> idle update -> scroll), the post-collection filter, *)
(* the sort by parsed timestamp, the truncation and the write of the       *)
(* output artifact.                                                        *)
(*                                                                         *)
(* Strings are sequences of tokens: a text is a sequence of characters, an *)
(* href a sequence of path segments and "/" separators, a timestamp a date *)
(* token followed by an optional zone token.  The renderer is the          *)
(* environment: every call into it (goto, wait_for_selector,               *)
(* query_selector_all, evaluate) returns or raises, chosen with \E.        *)
(***************************************************************************)
EXTENDS Integers, Sequences, FiniteSets, TLC

\* ------------------------------------------------------------------ bounds

\* max_posts is drawn from 0..MaxPostsBound, max_scrolls from 0..MaxScrollsBound
\* (both are counts: the model covers the non-negative budgets).
MaxPostsBound == 2
MaxScrollsBound == 6
\* query_selector_all returns at most MaxBatch containers per cycle.
MaxBatch == 2
\* navigate_with_retries alone is checked for max_attempts in 0..MaxAttemptsBound.
MaxAttemptsBound == 4
\* the sort is checked alone on lists of at most MaxSortLen records.
MaxSortLen == 3
\* the extractor is checked alone on batches of at most MaxExtractLen containers.
MaxExtractLen == 2
\* the image rule is checked alone on containers of at most MaxImgs images.
MaxImgs == 2
\* the filter is checked alone on at most MaxFilterLen collected records.
MaxFilterLen == 2

\* ------------------------------------------------------- program constants

\* scrape passes max_attempts=3 to navigate_with_retries.
NavAttempts == 3
\* the loop runs while idle_rounds < 5.
IdleLimit == 5
\* time.sleep(2 * attempt).
BackoffUnit == 2

\* ------------------------------------------------------------- text helpers

None == <<"None">>

IsSpace(c) == c \in {" ", "\t"}

\* str.lower() on one token (a character, or a word of an attribute value).
LowerChar(c) ==
    CASE c = "A" -> "a" [] c = "B" -> "b"
      [] c = "Avatar" -> "avatar" [] c = "AVATAR" -> "avatar"
      [] OTHER -> c

LowerStr(s) == [i \in 1..Len(s) |-> LowerChar(s[i])]

\* s contains needle as a contiguous substring (Python's `needle in s`).
Contains(needle, s) ==
    \E i \in 0..(Len(s) - Len(needle)) : SubSeq(s, i + 1, i + Len(needle)) = needle

\* re.sub(r"\s+", " ", s): every maximal run of whitespace becomes one space.
RECURSIVE CollapseWs(_)
CollapseWs(s) ==
    IF s = <<>> THEN <<>>
    ELSE IF IsSpace(Head(s))
         THEN IF Len(s) > 1 /\ IsSpace(s[2])
              THEN CollapseWs(Tail(s))
              ELSE <<" ">> \o CollapseWs(Tail(s))
         ELSE <<Head(s)>> \o CollapseWs(Tail(s))

RECURSIVE LStrip(_)
LStrip(s) == IF s # <<>> /\ IsSpace(Head(s)) THEN LStrip(Tail(s)) ELSE s

RECURSIVE RStrip(_)
RStrip(s) ==
    IF s # <<>> /\ IsSpace(s[Len(s)]) THEN RStrip(SubSeq(s, 1, Len(s) - 1)) ELSE s

Strip(s) == RStrip(LStrip(s))

\* (mutant) no re.sub: runs of whitespace are kept.
NormalizeNoCollapse(s) == IF s = <<>> THEN <<>> ELSE LowerStr(Strip(s))

normalize_text(s) == IF s = <<>> THEN <<>> ELSE LowerStr(Strip(CollapseWs(s)))

\* re.search(query, text, flags=re.IGNORECASE) for the patterns of the model:
\* letters and spaces are literals, and "(" is an unbalanced group (re.error).
RegexValid(q) == \A i \in 1..Len(q) : q[i] # "("

re_search(q, text) == Contains(LowerStr(q), LowerStr(text))

\* (mutant) a pattern that does not compile is matched as a literal.
TextMatchesInvalidAsLiteral(q, text, use_regex) ==
    IF q = <<>> THEN TRUE
    ELSE IF text = None THEN FALSE
    ELSE IF use_regex /\ RegexValid(q)
         THEN re_search(q, text)
         ELSE Contains(normalize_text(q), normalize_text(text))

text_matches(q, text, use_regex) ==
    IF q = <<>> THEN TRUE
    ELSE IF text = None THEN FALSE
    ELSE IF use_regex
         THEN IF RegexValid(q) THEN re_search(q, text) ELSE FALSE
         ELSE Contains(normalize_text(q), normalize_text(text))

\* --------------------------------------------------------------- timestamps

\* A timestamp string is None or a token sequence: a date token, then an
\* optional zone token ("Z", "+00:00", "+01:00"); anything else is unparsable.
DateTokens == {"D1", "D2"}
ZoneTokens == {"Z", "+00:00", "+01:00"}

\* hours since the epoch of the model at local midnight of the date.
DateHours(d) == CASE d = "D1" -> 24 [] d = "D2" -> 48 [] OTHER -> 0

ZoneHours(z) == CASE z = "+01:00" -> 1 [] OTHER -> 0

\* ts.replace("Z", "+00:00")
ReplaceZ(ts) == [i \in 1..Len(ts) |-> IF ts[i] = "Z" THEN "+00:00" ELSE ts[i]]

\* what datetime.fromisoformat accepts (after the replacement, "Z" is gone).
IsoParsable(s) ==
    \/ Len(s) = 1 /\ s[1] \in DateTokens
    \/ Len(s) = 2 /\ s[1] \in DateTokens /\ s[2] \in ZoneTokens \ {"Z"}

\* datetime.min: naive, before every date.
DatetimeMin == [aware |-> FALSE, t |-> 0]

\* an aware datetime is compared by its UTC instant, a naive one by its fields.
fromisoformat(s) ==
    IF Len(s) = 1
    THEN [aware |-> FALSE, t |-> DateHours(s[1])]
    ELSE [aware |-> TRUE, t |-> DateHours(s[1]) - ZoneHours(s[2])]

sort_key(item) ==
    IF item.timestamp = None \/ item.timestamp = <<>>
    THEN DatetimeMin
    ELSE IF IsoParsable(ReplaceZ(item.timestamp))
         THEN fromisoformat(ReplaceZ(item.timestamp))
         ELSE DatetimeMin

\* --------------------------------------------------------------- extraction

\* A container (an <article>) as the extractor reads it: the hrefs of its
\* anchors (None when the attribute is missing), its <time> element's datetime
\* attribute, its div[lang] text and whole inner text, its images' src and alt,
\* and the step at which reading it raises ("none", or "anchors", "time",
\* "text", "imgs": the query of that part of the container).
OrEmpty(v) == IF v = None THEN <<>> ELSE v

StatusMarker == <<"/", "status", "/">>

\* the first anchor whose href contains "/status/", or <<>> when there is none.
RECURSIVE FirstStatusHref(_)
FirstStatusHref(anchors) ==
    IF anchors = <<>> THEN <<>>
    ELSE IF Contains(StatusMarker, OrEmpty(Head(anchors)))
         THEN OrEmpty(Head(anchors))
         ELSE FirstStatusHref(Tail(anchors))

\* (mutant) no rstrip: the id is split off the href as it stands.
RStripNothing(h) == h

\* href.rstrip("/")
RECURSIVE RStripSlash(_)
RStripSlash(h) ==
    IF h # <<>> /\ h[Len(h)] = "/" THEN RStripSlash(SubSeq(h, 1, Len(h) - 1)) ELSE h

\* h.split("/")[-1]: what follows the last "/".
RECURSIVE LastSegment(_)
LastSegment(h) ==
    IF h = <<>> \/ h[Len(h)] = "/" THEN <<>>
    ELSE LastSegment(SubSeq(h, 1, Len(h) - 1)) \o <<h[Len(h)]>>

IsAvatar(img) ==
    \/ Contains(<<"profile_images">>, OrEmpty(img.src))
    \/ Contains(<<"avatar">>, LowerStr(OrEmpty(img.alt)))
    \/ Contains(<<"avatar">>, OrEmpty(img.src))

InSeq(x, s) == \E i \in 1..Len(s) : s[i] = x

RECURSIVE ExtractImages(_, _)
ExtractImages(imgs, acc) ==
    IF imgs = <<>> THEN acc
    ELSE LET src == OrEmpty(Head(imgs).src)
         IN  IF IsAvatar(Head(imgs)) THEN ExtractImages(Tail(imgs), acc)
             ELSE IF src # <<>> /\ ~InSeq(src, acc)
                  THEN ExtractImages(Tail(imgs), Append(acc, src))
                  ELSE ExtractImages(Tail(imgs), acc)

ExtractTimestamp(a) ==
    IF a.has_time /\ a.datetime # None /\ a.datetime # <<>> THEN a.datetime ELSE None

ExtractText(a) == IF a.has_lang THEN Strip(a.lang_text) ELSE Strip(a.inner_text)

\* the container has an anchor whose href contains "/status/".
HasStatusLink(a) == FirstStatusHref(a.anchors) # <<>>

\* reading the container raises: at the anchors, or, the status link found (a
\* container without one is left at `continue`), at a later step.
Raised(a) ==
    \/ a.raises = "anchors"
    \/ a.raises # "none" /\ HasStatusLink(a)

\* the record of one container; <<>> when it is skipped (no status link, or an
\* exception while reading it: posts.append is the last step), <<post>> otherwise.
ExtractOne(a) ==
    IF Raised(a) THEN <<>>
    ELSE LET status_href == FirstStatusHref(a.anchors)
         IN  IF status_href = <<>> THEN <<>>
             ELSE << [id        |-> LastSegment(RStripSlash(status_href)),
                      permalink |-> <<"https://x.com">> \o status_href,
                      timestamp |-> ExtractTimestamp(a),
                      text      |-> ExtractText(a),
                      images    |-> ExtractImages(a.imgs, <<>>)] >>

\* (mutant) one try block around the whole loop: the first container that
\* raises ends the batch.
RECURSIVE ExtractAbortOnRaise(_)
ExtractAbortOnRaise(articles) ==
    IF articles = <<>> \/ Raised(Head(articles)) THEN <<>>
    ELSE ExtractOne(Head(articles)) \o ExtractAbortOnRaise(Tail(articles))

RECURSIVE extract_posts_from_articles(_)
extract_posts_from_articles(articles) ==
    IF articles = <<>> THEN <<>>
    ELSE ExtractOne(Head(articles)) \o extract_posts_from_articles(Tail(articles))

\* ------------------------------------------------- the renderer of the runs

\* The page of a run shows posts 1 and 2 and a container without status link
\* (a promoted unit); post 1 is rendered in two ways, completely (variant 1:
\* a <time> with a Z timestamp, a div[lang]) or partially (variant 2: neither).
IdTok == <<"1", "2">>
DateTok == <<"D1", "D2">>
RunRenderings == {<<1, 1>>, <<1, 2>>, <<2, 1>>}

RunContainer(i, v) ==
    [anchors    |-> << <<"/", "u">>, <<"/", "u", "/", "status", "/", IdTok[i]>> >>,
     has_time   |-> (v = 1),
     datetime   |-> IF v = 1 THEN <<DateTok[i], "Z">> ELSE None,
     has_lang   |-> (v = 1),
     lang_text  |-> <<"A", " ", " ", "b">>,
     inner_text |-> <<" ", "b">>,
     imgs       |-> <<>>,
     raises     |-> "none"]

NoLinkContainer ==
    [anchors    |-> << <<"/", "u">> >>,
     has_time   |-> FALSE,
     datetime   |-> None,
     has_lang   |-> FALSE,
     lang_text  |-> <<>>,
     inner_text |-> <<"a">>,
     imgs       |-> <<>>,
     raises     |-> "none"]

RunContainers == {RunContainer(r[1], r[2]) : r \in RunRenderings} \cup {NoLinkContainer}

SeqsUpTo(S, n) == UNION {[1..k -> S] : k \in 0..n}

Batches == SeqsUpTo(RunContainers, MaxBatch)

\* what extract_posts_from_articles returns for the batches of a run.
ExtractedBatches == {extract_posts_from_articles(articles) : articles \in Batches}

\* the filter arguments of the runs: none, substring, regex, exact.
FilterConfigs ==
    { [query |-> <<>>,                regex |-> FALSE, exact |-> FALSE],
      [query |-> <<"a">>,             regex |-> FALSE, exact |-> FALSE],
      [query |-> <<"a">>,             regex |-> TRUE,  exact |-> FALSE],
      [query |-> <<"B">>,             regex |-> FALSE, exact |-> TRUE] }

\* -------------------------------------------------------------------- state

VARIABLES
    max_posts, max_scrolls, max_attempts,   \* arguments
    query, regex, exact,                    \* filter arguments
    pc,                                     \* where the run is
    attempt, ok,                            \* navigate_with_retries: loop variable, result
    failed, last_failure, sleeps,           \* observed: failed attempts, the last failure, back-off delays
    collected, prev_count, scrolls, idle_rounds,
    posts_list, artifact,                   \* artifact: <<>> until posts.json is written
    cycles, unchanged_run, last_seen,       \* observed history of the loop
    overwrote,                              \* observed: overwrites of the merge of the current cycle
    event,                                  \* observed: outcome of the query and of the scroll of the current cycle
    sort_input,                             \* the list handed to the sort
    scroll_cmds,                            \* observed: scroll commands sent to the page
    playwright, browser,                    \* the driver session of the with block, the browser it launched
    batch_in, batch_out                     \* a call of extract_posts_from_articles: articles, posts

vars == << max_posts, max_scrolls, max_attempts, query, regex, exact, pc,
           attempt, ok, failed, last_failure, sleeps,
           collected, prev_count, scrolls, idle_rounds,
           posts_list, artifact,
           cycles, unchanged_run, last_seen, overwrote, event, sort_input,
           scroll_cmds, playwright, browser, batch_in, batch_out >>

args == << max_posts, max_scrolls, max_attempts, query, regex, exact >>
navvars == << attempt, ok, failed, last_failure, sleeps >>
loopvars == << collected, prev_count, scrolls, idle_rounds >>
loopobs == << cycles, unchanged_run, last_seen, overwrote, scroll_cmds >>
outvars == << posts_list, artifact, sort_input >>
resvars == << playwright, browser >>
callvars == << batch_in, batch_out >>

EmptyMap == [x \in {} |-> x]

NoEvent == [query |-> "none", scroll |-> "none"]

\* everything but the arguments and pc, as it is when scrape is entered.
Fresh ==
    /\ attempt = 0 /\ ok = FALSE /\ failed = 0 /\ last_failure = <<>> /\ sleeps = <<>>
    /\ collected = <<>> /\ prev_count = 0 /\ scrolls = 0 /\ idle_rounds = 0
    /\ posts_list = <<>> /\ artifact = <<>>
    /\ cycles = 0 /\ unchanged_run = 0 /\ last_seen = EmptyMap /\ overwrote = {}
    /\ event = NoEvent /\ sort_input = <<>>
    /\ scroll_cmds = 0
    /\ playwright = "started" /\ browser = "open"
    /\ batch_in = <<>> /\ batch_out = <<>>

\* (mutant) the driver is started without the with block: only the normal
\* path stops it.
WithExitOnReturnOnly(how) == IF how = "return" THEN "stopped" ELSE "started"

\* the driver session when the block of `with sync_playwright() as p` is left,
\* by its end ("return") or by an exception ("raise"): the context manager
\* stops the driver either way.
WithExit(how) == "stopped"

\* scrape is left: browser.close() is the last statement of the block, so it
\* is reached at the end of the block only.
Release(how) ==
    /\ playwright' = WithExit(how)
    /\ browser' = IF how = "return" THEN "closed" ELSE browser

\* the run stays inside the with block.
Hold == UNCHANGED resvars

Init ==
    /\ max_posts \in 0..MaxPostsBound
    /\ max_scrolls \in 0..MaxScrollsBound
    /\ max_attempts = NavAttempts
    /\ \E f \in FilterConfigs : query = f.query /\ regex = f.regex /\ exact = f.exact
    /\ pc = "nav"
    /\ Fresh

\* ------------------------------------------------------------ the filter

\* the record passes the filter of the run (exact takes precedence over regex).
Matches(p) ==
    IF exact
    THEN normalize_text(p.text) = normalize_text(query)
    ELSE text_matches(query, p.text, regex)

\* matched = [p for p in posts_list if ...], in the order of posts_list
Matched(list) ==
    LET F[i \in 0..Len(list)] ==
            IF i = 0 THEN <<>>
            ELSE IF Matches(list[i]) THEN Append(F[i - 1], list[i]) ELSE F[i - 1]
    IN  F[Len(list)]

\* if query: ... posts_list = matched
Filtered(list) == IF query # <<>> THEN Matched(list) ELSE list

\* ------------------------------------------------------ navigate_with_retries

\* (mutant) the fallback's `except Exception` clause is missing: only its
\* timeout is caught.
NavHandlerTimeoutOnly(stage, exc) ==
    IF stage = "goto"
    THEN IF exc = "timeout" THEN "fallback" ELSE "backoff"
    ELSE IF exc = "timeout" THEN "backoff" ELSE "propagate"

\* (mutant) one handler for every failure of the primary load: the fallback
\* is tried after any of them.
NavHandlerFallbackOnAny(stage, exc) ==
    IF stage = "goto" THEN "fallback" ELSE "backoff"

\* which handler takes a failure raised in a stage of an attempt: the primary
\* load's timeout starts the fallback, every other failure is logged and
\* backed off; nothing propagates.
NavHandler(stage, exc) ==
    IF stage = "goto" /\ exc = "timeout" THEN "fallback" ELSE "backoff"

\* (mutant) a constant back-off: time.sleep(2).
BackoffConstant(a) == BackoffUnit

\* time.sleep(2 * attempt)
BackoffDelay(a) == BackoffUnit * a

\* for attempt in range(1, max_attempts + 1) ... return False
NavLoop ==
    /\ pc = "nav"
    /\ IF attempt < max_attempts
       THEN /\ attempt' = attempt + 1
            /\ pc' = "goto"
            /\ ok' = ok
       ELSE /\ ok' = FALSE
            /\ pc' = "returned"
            /\ attempt' = attempt
    /\ Hold
    /\ UNCHANGED << args, callvars, failed, last_failure, sleeps, loopvars, loopobs, outvars, event >>

\* a stage of the attempt raised exc.
NavFail(stage, exc) ==
    LET h == NavHandler(stage, exc)
    IN  /\ pc' = CASE h = "fallback" -> "fallback"
                   [] h = "backoff"  -> "nav"
                   [] OTHER          -> "raised"
        /\ failed' = IF h = "backoff" THEN failed + 1 ELSE failed
        /\ last_failure' = <<stage, exc>>
        /\ sleeps' = IF h = "backoff" THEN Append(sleeps, BackoffDelay(attempt)) ELSE sleeps
        /\ IF h \in {"fallback", "backoff"} THEN Hold ELSE Release("raise")
        /\ UNCHANGED << attempt, ok >>

NavReturnTrue ==
    pc' = "returned" /\ ok' = TRUE /\ Hold /\ UNCHANGED << attempt, failed, last_failure, sleeps >>

\* page.goto(url, wait_until="networkidle")
PrimaryLoad ==
    /\ pc = "goto"
    /\ \E r \in {"ok", "timeout", "error"} :
          IF r = "ok" THEN NavReturnTrue ELSE NavFail("goto", r)
    /\ UNCHANGED << args, callvars, loopvars, loopobs, outvars, event >>

\* page.goto(url, wait_until="domcontentloaded")
FallbackLoad ==
    /\ pc = "fallback"
    /\ \E r \in {"ok", "timeout", "error"} :
          IF r = "ok"
          THEN pc' = "wait" /\ Hold /\ UNCHANGED navvars
          ELSE NavFail("fallback", r)
    /\ UNCHANGED << args, callvars, loopvars, loopobs, outvars, event >>

\* page.wait_for_selector("article", timeout=10_000)
WaitForArticle ==
    /\ pc = "wait"
    /\ \E r \in {"ok", "timeout", "error"} :
          IF r = "ok" THEN NavReturnTrue ELSE NavFail("wait", r)
    /\ UNCHANGED << args, callvars, loopvars, loopobs, outvars, event >>

\* ------------------------------------------------------ scrape: the loop

\* ok = navigate_with_retries(...); the failure is only printed; sleep; the
\* loop's variables are initialised.  The call's frame is gone.
StartCollect ==
    /\ pc = "returned"
    /\ pc' = "loop"
    /\ attempt' = 0 /\ failed' = 0 /\ last_failure' = <<>> /\ sleeps' = <<>>
    /\ collected' = <<>> /\ prev_count' = 0 /\ scrolls' = 0 /\ idle_rounds' = 0
    /\ Hold
    /\ UNCHANGED << args, callvars, ok, loopobs, outvars, event >>

\* (mutant) the idle test is off by one: a sixth idle cycle is allowed.
LoopCondIdleOffByOne ==
    /\ Len(collected) < max_posts
    /\ scrolls < max_scrolls
    /\ idle_rounds <= IdleLimit

\* (mutant) the scroll test is off by one: scrolls <= max_scrolls.
LoopCondScrollsInclusive ==
    /\ Len(collected) < max_posts
    /\ scrolls <= max_scrolls
    /\ idle_rounds < IdleLimit

\* while len(collected) < max_posts and scrolls < max_scrolls and idle_rounds < 5
LoopCond ==
    /\ Len(collected) < max_posts
    /\ scrolls < max_scrolls
    /\ idle_rounds < IdleLimit

KeyIndex(map, k) ==
    IF \E i \in 1..Len(map) : map[i].key = k
    THEN CHOOSE i \in 1..Len(map) : map[i].key = k /\ \A j \in 1..(i - 1) : map[j].key # k
    ELSE 0

\* (mutant) collected.setdefault(pid, pitem): the first record of an id stays.
DictSetDefault(map, k, v) ==
    IF KeyIndex(map, k) = 0 THEN Append(map, [key |-> k, value |-> v]) ELSE map

\* collected[pid] = pitem: a dict keeps a present key in its place and puts a
\* new key last.
DictSet(map, k, v) ==
    IF KeyIndex(map, k) = 0
    THEN Append(map, [key |-> k, value |-> v])
    ELSE [map EXCEPT ![KeyIndex(map, k)] = [key |-> k, value |-> v]]

\* (mutant) the filter is applied in the loop: only a record that passes it
\* is stored.
RECURSIVE MergeMatching(_, _)
MergeMatching(map, new_posts) ==
    IF new_posts = <<>> THEN map
    ELSE LET pitem == Head(new_posts)
         IN  IF pitem.id = <<>> \/ (query # <<>> /\ ~Matches(pitem))
             THEN MergeMatching(map, Tail(new_posts))
             ELSE MergeMatching(DictSet(map, pitem.id, pitem), Tail(new_posts))

\* for pitem in new_posts: pid = pitem.get("id"); if not pid: continue;
\* collected[pid] = pitem
RECURSIVE Merge(_, _)
Merge(map, new_posts) ==
    IF new_posts = <<>> THEN map
    ELSE LET pitem == Head(new_posts)
         IN  IF pitem.id = <<>>
             THEN Merge(map, Tail(new_posts))
             ELSE Merge(DictSet(map, pitem.id, pitem), Tail(new_posts))

\* the latest extracted record of each id, from the records seen so far.
SeenAfter(seen, new_posts) ==
    LET ids == {new_posts[j].id : j \in 1..Len(new_posts)} \ {<<>>}
        last(k) == CHOOSE j \in 1..Len(new_posts) :
                      /\ new_posts[j].id = k
                      /\ \A m \in (j + 1)..Len(new_posts) : new_posts[m].id # k
    IN  [k \in (DOMAIN seen) \cup ids |->
            IF k \in ids THEN new_posts[last(k)] ELSE seen[k]]

\* (mutant) the container query is not wrapped in try/except.
LoopHandlerQueryFatal(call) == IF call = "query" THEN "propagate" ELSE "absorb"

\* what the loop does with an exception of a renderer call ("query": the
\* container query, "scroll": the scroll command): both are printed and absorbed.
LoopHandler(call) == "absorb"

\* the ways in which the batch of the current cycle replaced a record by a different one of the same
\* id: one stored by an earlier cycle ("across"), one of the same batch ("within").
Overwrites(seen, new_posts) ==
    {"across" : j \in {j \in 1..Len(new_posts) :
                          /\ new_posts[j].id \in DOMAIN seen
                          /\ seen[new_posts[j].id] # new_posts[j]}}
    \cup
    {"within" : j \in {j \in 1..Len(new_posts) :
                          \E m \in 1..(j - 1) : /\ new_posts[m].id = new_posts[j].id
                                                 /\ new_posts[m] # new_posts[j]}}

\* (mutant) the break is missing: the cycle goes on to its scroll.
BreakCheckMissing(current_count) == "scroll"

\* if len(collected) >= max_posts: break
BreakCheck(current_count) == IF current_count >= max_posts THEN "filter" ELSE "scroll"

\* one pass of the loop body up to the break, new_posts being the extraction of
\* the queried articles (of no article when the query raised): the merge, the
\* idle update.
CycleWith(new_posts, query_failed) ==
    LET merged == Merge(collected, new_posts)
        current_count == Len(merged)
    IN  /\ collected' = merged
        /\ IF current_count = prev_count
           THEN idle_rounds' = idle_rounds + 1 /\ prev_count' = prev_count
           ELSE idle_rounds' = 0 /\ prev_count' = current_count
        /\ pc' = BreakCheck(current_count)
        /\ scroll_cmds' = scroll_cmds
        /\ Hold
        /\ cycles' = cycles + 1
        /\ unchanged_run' = IF Len(merged) = Len(collected) THEN unchanged_run + 1 ELSE 0
        /\ last_seen' = SeenAfter(last_seen, new_posts)
        /\ overwrote' = Overwrites(last_seen, new_posts)
        /\ event' = [query |-> IF query_failed THEN "failed" ELSE "ok", scroll |-> "none"]

\* an exception left the loop: the run ends without artifact.
LoopRaise(call) ==
    /\ pc' = "raised"
    /\ event' = [event EXCEPT ![call] = "failed"]
    /\ Release("raise")
    /\ UNCHANGED << loopvars, loopobs >>

Cycle ==
    /\ pc = "loop"
    /\ LoopCond
    /\ \/ IF LoopHandler("query") = "absorb"
          THEN CycleWith(<<>>, TRUE)
          ELSE LoopRaise("query")
       \/ \E new_posts \in ExtractedBatches : CycleWith(new_posts, FALSE)
    /\ UNCHANGED << args, callvars, navvars, scrolls, outvars >>

\* (mutant) scrolls += 1 inside the try block: a failed scroll is not counted.
ScrollCountInsideTry(r) == scrolls' = scrolls + (IF r = "ok" THEN 1 ELSE 0)

\* scrolls += 1, after the scroll command whether or not it failed.
ScrollCount(r) == scrolls' = scrolls + 1

\* page.evaluate(scrollBy) (its failure is only printed); sleep; scrolls += 1
Scroll ==
    /\ pc = "scroll"
    /\ \E r \in {"ok", "error"} :
          IF r = "ok" \/ LoopHandler("scroll") = "absorb"
          THEN /\ event' = [event EXCEPT !.scroll = IF r = "ok" THEN "ok" ELSE "failed"]
               /\ ScrollCount(r)
               /\ pc' = "loop"
               /\ overwrote' = {}
               /\ scroll_cmds' = scroll_cmds + 1
               /\ Hold
               /\ UNCHANGED << collected, prev_count, idle_rounds, cycles, unchanged_run, last_seen >>
          ELSE LoopRaise("scroll")
    /\ UNCHANGED << args, callvars, navvars, outvars >>

\* the while condition is false.
LoopExit ==
    /\ pc = "loop"
    /\ ~LoopCond
    /\ pc' = "filter"
    /\ Hold
    /\ UNCHANGED << args, callvars, navvars, loopvars, loopobs, outvars, event >>

\* ------------------------------------------- scrape: filter, sort, persist

\* list(collected.values())
Values(map) == [i \in 1..Len(map) |-> map[i].value]

FilterStep ==
    /\ pc = "filter"
    /\ posts_list' = Filtered(Values(collected))
    /\ pc' = "sort"
    /\ Hold
    /\ UNCHANGED << args, callvars, navvars, loopvars, loopobs, artifact, sort_input, event >>

\* comparing an offset-naive with an offset-aware datetime raises TypeError;
\* a sort of a list holding both kinds of key compares one with the other.
SortRaises(list) ==
    \E i, j \in 1..Len(list) : sort_key(list[i]).aware # sort_key(list[j]).aware

\* x goes before the first element whose key is smaller than its own.
RECURSIVE InsertDesc(_, _)
InsertDesc(x, sorted) ==
    IF sorted = <<>> THEN <<x>>
    ELSE IF sort_key(Head(sorted)).t < sort_key(x).t
         THEN <<x>> \o sorted
         ELSE <<Head(sorted)>> \o InsertDesc(x, Tail(sorted))

RECURSIVE InsertAsc(_, _)
InsertAsc(x, sorted) ==
    IF sorted = <<>> THEN <<x>>
    ELSE IF sort_key(x).t < sort_key(Head(sorted)).t
         THEN <<x>> \o sorted
         ELSE <<Head(sorted)>> \o InsertAsc(x, Tail(sorted))

\* (mutant) reverse=True is left out: ascending.
SortAsc(list) ==
    LET F[i \in 0..Len(list)] ==
            IF i = 0 THEN <<>> ELSE InsertAsc(list[i], F[i - 1])
    IN  F[Len(list)]

\* list.sort(key=sort_key, reverse=True): descending, and stable.
SortDesc(list) ==
    LET F[i \in 0..Len(list)] ==
            IF i = 0 THEN <<>> ELSE InsertDesc(list[i], F[i - 1])
    IN  F[Len(list)]

\* (mutant) the truncation is left out.
TruncateNothing(list, n) == list

\* posts_list[:max_posts]
Truncate(list, n) ==
    IF n >= 0
    THEN SubSeq(list, 1, IF n < Len(list) THEN n ELSE Len(list))
    ELSE SubSeq(list, 1, Len(list) + n)

\* posts_list.sort(...); posts_list = posts_list[:max_posts]; json.dump(...)
SortAndPersist ==
    /\ pc = "sort"
    /\ sort_input' = posts_list
    /\ IF SortRaises(posts_list)
       THEN /\ pc' = "raised"
            /\ Release("raise")
            /\ UNCHANGED << posts_list, artifact >>
       ELSE /\ posts_list' = Truncate(SortDesc(posts_list), max_posts)
            /\ artifact' = << [count |-> Len(posts_list'),
                               posts |-> posts_list',
                               query |-> query, regex |-> regex, exact |-> exact] >>
            /\ pc' = "done"
            /\ Release("return")
    /\ UNCHANGED << args, callvars, navvars, loopvars, loopobs, event >>

\* ------------------------------------------------------------ specifications

Next ==
    \/ NavLoop
    \/ PrimaryLoad
    \/ FallbackLoad
    \/ WaitForArticle
    \/ StartCollect
    \/ Cycle
    \/ Scroll
    \/ LoopExit
    \/ FilterStep
    \/ SortAndPersist

\* a run of scrape.
Spec == Init /\ [][Next]_vars

\* the run is one thread of control and every call into the renderer returns
\* or raises: a step that can be taken is taken.
FairSpec == Spec /\ WF_vars(Next)

\* navigate_with_retries alone, for every max_attempts of the bound.
InitNav ==
    /\ max_posts = 0 /\ max_scrolls = 0
    /\ max_attempts \in 0..MaxAttemptsBound
    /\ query = <<>> /\ regex = FALSE /\ exact = FALSE
    /\ pc = "nav"
    /\ Fresh

NextNav ==
    \/ NavLoop
    \/ PrimaryLoad
    \/ FallbackLoad
    \/ WaitForArticle

SpecNav == InitNav /\ [][NextNav]_vars

\* the sort, the truncation and the write alone, on every list of records with
\* distinct ids and any timestamps that the loop can leave.
SortTimestamps ==
    { None, <<"x">>, <<"D1">>, <<"D2">>, <<"D1", "Z">>, <<"D2", "Z">>, <<"D2", "+01:00">> }

SortIdTok == <<"1", "2", "3", "4", "5", "6">>

SortRecord(i, ts) ==
    [id |-> <<SortIdTok[i]>>, permalink |-> <<"https://x.com", "/", "status", "/", SortIdTok[i]>>,
     timestamp |-> ts, text |-> <<"a">>, images |-> <<>>]

SortInputs ==
    UNION { { [i \in 1..n |-> SortRecord(i, tss[i])] : tss \in [1..n -> SortTimestamps] }
            : n \in 0..MaxSortLen }

InitSort ==
    /\ max_posts \in 0..MaxPostsBound
    /\ max_scrolls = 1
    /\ max_attempts = NavAttempts
    /\ query = <<>> /\ regex = FALSE /\ exact = FALSE
    /\ pc = "sort"
    /\ posts_list \in SortInputs
    /\ max_posts = 0 => posts_list = <<>>
    /\ collected = [i \in 1..Len(posts_list) |-> [key |-> posts_list[i].id, value |-> posts_list[i]]]
    /\ attempt = 0 /\ ok = TRUE /\ failed = 0 /\ last_failure = <<>> /\ sleeps = <<>>
    /\ prev_count = Len(posts_list) /\ scrolls = 0 /\ idle_rounds = 0
    /\ artifact = <<>>
    /\ cycles = IF posts_list = <<>> THEN 0 ELSE 1
    /\ unchanged_run = 0
    /\ last_seen = [k \in {posts_list[i].id : i \in 1..Len(posts_list)} |->
                       (CHOOSE r \in {posts_list[i] : i \in 1..Len(posts_list)} : r.id = k)]
    /\ overwrote = {}
    /\ event = NoEvent /\ sort_input = <<>>
    /\ scroll_cmds = 0
    /\ playwright = "started" /\ browser = "open"
    /\ batch_in = <<>> /\ batch_out = <<>>

NextSort == SortAndPersist

SpecSort == InitSort /\ [][NextSort]_vars

\* extract_posts_from_articles and the merge of its posts alone, on every
\* batch of containers that differ in their anchors and in the step at which
\* reading them raises.
ExtractAnchors ==
    { <<>>,
      << <<"/", "u">> >>,
      << None, <<"/", "u", "/", "status", "/", "1">> >>,
      << <<"/", "u", "/", "status", "/", "2", "/", "/">>, <<"/", "u", "/", "status", "/", "1">> >>,
      << <<"/", "status", "/">> >>,
      << <<"/", "u">>, <<"/", "u", "/", "status", "/", "3", "/", "photo", "/", "9">> >> }

ExtractRaises == {"none", "anchors", "time", "text", "imgs"}

ExtractContainer(anchors, raises) ==
    [anchors    |-> anchors,
     has_time   |-> TRUE,
     datetime   |-> <<"D1", "Z">>,
     has_lang   |-> TRUE,
     lang_text  |-> <<"a">>,
     inner_text |-> <<"a", " ", "b">>,
     imgs       |-> << [src |-> <<"https://pbs", "/", "media", "/", "1.jpg">>, alt |-> <<"Image">>] >>,
     raises     |-> raises]

ExtractContainers ==
    {ExtractContainer(anchors, raises) : anchors \in ExtractAnchors, raises \in ExtractRaises}

\* the images of a container: src and alt attributes, None when missing.
ImageSrcs ==
    { None,
      <<"https://pbs", "/", "media", "/", "1.jpg">>,
      <<"https://pbs", "/", "media", "/", "2.jpg">>,
      <<"https://pbs", "/", "profile_images", "/", "u.jpg">>,
      <<"https://cdn", "/", "avatar", "/", "u.png">>,
      <<"https://cdn", "/", "Avatar", "/", "u.png">> }

ImageAlts == { None, <<"Image">>, <<"Avatar">> }

Images == {[src |-> src, alt |-> alt] : src \in ImageSrcs, alt \in ImageAlts}

ImageContainer(imgs) ==
    [anchors    |-> << <<"/", "u", "/", "status", "/", "1">> >>,
     has_time   |-> TRUE,
     datetime   |-> <<"D1", "Z">>,
     has_lang   |-> TRUE,
     lang_text  |-> <<"a">>,
     inner_text |-> <<"a", " ", "b">>,
     imgs       |-> imgs,
     raises     |-> "none"]

InitExtract ==
    /\ max_posts = MaxPostsBound /\ max_scrolls = 1
    /\ max_attempts = NavAttempts
    /\ query = <<>> /\ regex = FALSE /\ exact = FALSE
    /\ pc = "extract"
    /\ attempt = 0 /\ ok = TRUE /\ failed = 0 /\ last_failure = <<>> /\ sleeps = <<>>
    /\ collected = <<>> /\ prev_count = 0 /\ scrolls = 0 /\ idle_rounds = 0
    /\ posts_list = <<>> /\ artifact = <<>>
    /\ cycles = 0 /\ unchanged_run = 0 /\ last_seen = EmptyMap /\ overwrote = {}
    /\ event = NoEvent /\ sort_input = <<>>
    /\ scroll_cmds = 0
    /\ playwright = "started" /\ browser = "open"
    /\ batch_in \in SeqsUpTo(ExtractContainers, MaxExtractLen)
    /\ batch_out = <<>>

\* new_posts = extract_posts_from_articles(articles)
ExtractBatch ==
    /\ pc = "extract"
    /\ batch_out' = extract_posts_from_articles(batch_in)
    /\ pc' = "merge"
    /\ UNCHANGED << args, navvars, loopvars, loopobs, outvars, resvars, event, batch_in >>

\* for pitem in new_posts: ... collected[pid] = pitem
MergeBatch ==
    /\ pc = "merge"
    /\ collected' = Merge(collected, batch_out)
    /\ pc' = "merged"
    /\ UNCHANGED << args, navvars, prev_count, scrolls, idle_rounds, loopobs, outvars,
                    resvars, event, callvars >>

NextExtract ==
    \/ ExtractBatch
    \/ MergeBatch

SpecExtract == InitExtract /\ [][NextExtract]_vars

\* the extractor on one container with a status link, for every list of
\* images of the bound.
InitImages ==
    /\ max_posts = MaxPostsBound /\ max_scrolls = 1
    /\ max_attempts = NavAttempts
    /\ query = <<>> /\ regex = FALSE /\ exact = FALSE
    /\ pc = "extract"
    /\ attempt = 0 /\ ok = TRUE /\ failed = 0 /\ last_failure = <<>> /\ sleeps = <<>>
    /\ collected = <<>> /\ prev_count = 0 /\ scrolls = 0 /\ idle_rounds = 0
    /\ posts_list = <<>> /\ artifact = <<>>
    /\ cycles = 0 /\ unchanged_run = 0 /\ last_seen = EmptyMap /\ overwrote = {}
    /\ event = NoEvent /\ sort_input = <<>>
    /\ scroll_cmds = 0
    /\ playwright = "started" /\ browser = "open"
    /\ \E imgs \in SeqsUpTo(Images, MaxImgs) : batch_in = << ImageContainer(imgs) >>
    /\ batch_out = <<>>

SpecImages == InitImages /\ [][NextExtract]_vars

\* the filter, the sort and the write alone, on every collected map of records
\* with distinct ids and texts that differ in case, whitespace and content, for
\* every query and mode.
FilterTexts ==
    { <<>>, <<"a">>, <<"b">>, <<"A", " ", " ", "b">>, <<"a", " ", "b", " ", "a">>, <<"(">> }

FilterQueries ==
    { <<>>, <<" ">>, <<"a">>, <<"A", " ", "b">>, <<"a", "\t", " ", "B", " ">>, <<"(">>, <<"a", "(">> }

FilterRecord(i, text) ==
    [id |-> <<SortIdTok[i]>>, permalink |-> <<"https://x.com", "/", "status", "/", SortIdTok[i]>>,
     timestamp |-> <<"D1", "Z">>, text |-> text, images |-> <<>>]

FilterInputs ==
    UNION { { [i \in 1..n |-> FilterRecord(i, texts[i])] : texts \in [1..n -> FilterTexts] }
            : n \in 0..MaxFilterLen }

InitFilter ==
    /\ max_posts = MaxPostsBound
    /\ max_scrolls = 1
    /\ max_attempts = NavAttempts
    /\ query \in FilterQueries /\ regex \in BOOLEAN /\ exact \in BOOLEAN
    /\ pc = "filter"
    /\ \E list \in FilterInputs :
          /\ collected = [i \in 1..Len(list) |-> [key |-> list[i].id, value |-> list[i]]]
          /\ last_seen = [k \in {list[i].id : i \in 1..Len(list)} |->
                             (CHOOSE r \in {list[i] : i \in 1..Len(list)} : r.id = k)]
    /\ attempt = 0 /\ ok = TRUE /\ failed = 0 /\ last_failure = <<>> /\ sleeps = <<>>
    /\ prev_count = Len(collected) /\ scrolls = 0 /\ idle_rounds = 0
    /\ posts_list = <<>> /\ artifact = <<>>
    /\ cycles = IF collected = <<>> THEN 0 ELSE 1
    /\ unchanged_run = 0
    /\ overwrote = {}
    /\ event = NoEvent /\ sort_input = <<>>
    /\ scroll_cmds = 0
    /\ playwright = "started" /\ browser = "open"
    /\ batch_in = <<>> /\ batch_out = <<>>

NextFilter ==
    \/ FilterStep
    \/ SortAndPersist

SpecFilter == InitFilter /\ [][NextFilter]_vars

\* ------------------------------------------------------------------- claims

LoopEnded == pc \in {"filter", "sort", "done", "raised"}

\* the containers of the batch whose reading ran to posts.append.
Appended == {j \in 1..Len(batch_in) : HasStatusLink(batch_in[j]) /\ ~Raised(batch_in[j])}

\* the place among the posts of the record of container j.
PlaceOf(j) == Cardinality({i \in Appended : i <= j})

\* C11: extract_posts_from_articles returns for every batch (it raises
\* nothing); a container whose reading raises at any step has no record among
\* the posts, not a partial one either; every container read to the end has
\* its record, and the records stand in the order of their containers.
C11_RaisingContainerSkipped ==
    pc \in {"merge", "merged"} =>
        /\ Len(batch_out) = Cardinality(Appended)
        /\ \A j \in Appended :
              /\ batch_out[PlaceOf(j)].permalink
                    = <<"https://x.com">> \o FirstStatusHref(batch_in[j].anchors)
              /\ DOMAIN batch_out[PlaceOf(j)]
                    = {"id", "permalink", "timestamp", "text", "images"}
        /\ \A j \in 1..Len(batch_in) : Raised(batch_in[j]) => j \notin Appended

\* a container that raises at its images, after id, time and text were read,
\* is followed by one that is read to the end.
C11_Witness ==
    /\ pc = "merge"
    /\ Len(batch_in) = 2
    /\ batch_in[1].raises = "imgs" /\ Raised(batch_in[1])
    /\ ~Raised(batch_in[2]) /\ HasStatusLink(batch_in[2])
    /\ Len(batch_out) = 1

\* C1: once IdleLimit (5) consecutive cycles have each left the number of
\* unique collected ids unchanged, no further query/extract cycle starts and
\* the loop ends, also when scrolls < max_scrolls and the count < max_posts.
C1_IdleTermination ==
    /\ [][unchanged_run >= IdleLimit => cycles' = cycles]_vars
    /\ (unchanged_run >= IdleLimit) ~> LoopEnded

C1_Witness ==
    /\ pc = "filter"
    /\ unchanged_run = IdleLimit
    /\ cycles = IdleLimit
    /\ scrolls < max_scrolls
    /\ Len(collected) < max_posts

\* C2: for every max_posts and max_scrolls and every behaviour of the
\* renderer, the loop ends, after at most max_scrolls query/extract cycles.
C2_BoundedLoop ==
    /\ [](cycles <= max_scrolls)
    /\ <>LoopEnded

C2_Witness ==
    /\ pc = "filter"
    /\ cycles = max_scrolls
    /\ max_scrolls > IdleLimit
    /\ event.scroll = "failed"

\* C3: whenever the artifact is written, the length of its posts list and its
\* count field are at most max_posts, with or without filter.
C3_ArtifactAtMostMaxPosts ==
    artifact # <<>> =>
        /\ Len(artifact[1].posts) <= max_posts
        /\ artifact[1].count <= max_posts

C3_Witness ==
    /\ artifact # <<>>
    /\ query # <<>>
    /\ Len(collected) > max_posts
    /\ Len(sort_input) > max_posts
    /\ artifact[1].count = max_posts
    /\ max_posts > 0

Written == artifact # <<>>

Persisted == artifact[1].posts

IsKept(r) == InSeq(r, Persisted)

\* C4: when the filtered set holds more than max_posts records, the persisted
\* list has exactly max_posts records, and no dropped record has a parsed
\* timestamp strictly later than a kept one.
C4_MostRecentKept ==
    (Written /\ Len(sort_input) > max_posts) =>
        /\ Len(Persisted) = max_posts
        /\ artifact[1].count = max_posts
        /\ \A k \in 1..Len(Persisted) : InSeq(Persisted[k], sort_input)
        /\ \A i \in 1..Len(sort_input) :
              ~IsKept(sort_input[i]) =>
                 \A k \in 1..Len(Persisted) :
                    ~(sort_key(sort_input[i]).t > sort_key(Persisted[k]).t)

\* a later record was kept and an earlier one, standing before it in the
\* input, dropped.
C4_Witness ==
    /\ Written
    /\ Len(sort_input) > max_posts
    /\ \E i, j \in 1..Len(sort_input) :
          /\ i < j
          /\ ~IsKept(sort_input[i])
          /\ IsKept(sort_input[j])
          /\ sort_key(sort_input[i]).aware
          /\ sort_key(sort_input[i]).t < sort_key(sort_input[j]).t

Parsable(r) ==
    /\ r.timestamp # None
    /\ r.timestamp # <<>>
    /\ IsoParsable(ReplaceZ(r.timestamp))

\* C5 (as claimed): the sort never raises, whatever the mix of timestamps, and
\* when it is done the records with a parsable timestamp come first, in
\* descending order, before every record without one.
C5_SortNeverRaises ==
    /\ pc # "raised"
    /\ Written =>
          \A i, j \in 1..Len(Persisted) :
             i < j =>
                /\ Parsable(Persisted[j]) => Parsable(Persisted[i])
                /\ ~(sort_key(Persisted[i]).t < sort_key(Persisted[j]).t)

\* C6: the collected map holds at most one record per id, and the record
\* stored for an id is the most recently extracted record of that id.
C6_LastSeenWins ==
    /\ \A i, j \in 1..Len(collected) : i # j => collected[i].key # collected[j].key
    /\ {collected[i].key : i \in 1..Len(collected)} = DOMAIN last_seen
    /\ \A i \in 1..Len(collected) : collected[i].value = last_seen[collected[i].key]

\* a batch that replaced the record of an earlier cycle and held two different
\* records of one id.
C6_Witness ==
    /\ pc = "scroll"
    /\ overwrote = {"across", "within"}
    /\ Len(collected) = 1

\* C7: at most max_attempts attempts; True at the first attempt that succeeds,
\* no later attempt being started; False iff all max_attempts attempts failed;
\* every failed attempt is followed, before the next attempt starts, by a
\* back-off of BackoffUnit (2) times its attempt number.
C7_NavAttempts ==
    /\ attempt <= max_attempts
    /\ Len(sleeps) = failed
    /\ \A i \in 1..Len(sleeps) : sleeps[i] = BackoffUnit * i
    /\ pc \in {"goto", "fallback", "wait"} => failed = attempt - 1
    /\ (pc = "returned" /\ ok) => failed = attempt - 1
    /\ pc = "returned" => (~ok <=> failed = max_attempts)

C7_Witness ==
    /\ pc = "returned"
    /\ ok
    /\ attempt = 3
    /\ attempt < max_attempts
    /\ sleeps = <<2, 4>>

\* C8: no failure of the primary load, of the fallback load or of the wait
\* (timeout or other exception) leaves navigate_with_retries: each but the
\* primary load's timeout, which starts the fallback, is a failed attempt.
C8_NavAbsorbsFailures ==
    /\ pc \in {"nav", "goto", "fallback", "wait", "returned"}
    /\ (last_failure # <<>> /\ last_failure # <<"goto", "timeout">>) => failed >= 1
    /\ (pc = "fallback") => last_failure = <<"goto", "timeout">>

C8_Witness ==
    /\ pc = "returned"
    /\ ~ok
    /\ max_attempts >= 2
    /\ failed = max_attempts
    /\ last_failure = <<"fallback", "error">>

\* C9 (as claimed): when navigation failed on all attempts, the run still ends
\* with the artifact written.
C9_NavFailureStillWrites ==
    (pc \in {"done", "raised"} /\ ~ok) => Written

QueryFailedStep == pc = "loop" /\ event' # event /\ event'.query = "failed"

ScrollFailedStep == pc = "scroll" /\ event'.scroll = "failed"

\* C10: a cycle whose container query fails goes on as a cycle that saw nothing
\* new (collected unchanged, idle counter incremented, on to the scroll), and a
\* failed scroll command is a scroll without effect (collected unchanged,
\* scrolls incremented, next iteration): neither ends the loop.
C10_FailuresAbsorbed ==
    [][ /\ QueryFailedStep =>
             /\ collected' = collected
             /\ prev_count' = prev_count
             /\ idle_rounds' = idle_rounds + 1
             /\ cycles' = cycles + 1
             /\ pc' = "scroll"
        /\ ScrollFailedStep =>
             /\ collected' = collected
             /\ idle_rounds' = idle_rounds
             /\ scrolls' = scrolls + 1
             /\ pc' = "loop" ]_vars

\* the query and then the scroll of a cycle failed, and the loop goes on.
C10_Witness ==
    /\ pc = "loop"
    /\ LoopCond
    /\ event = [query |-> "failed", scroll |-> "failed"]
    /\ Len(collected) > 0
    /\ idle_rounds >= 1


\* scrape has been left, by its end or by an exception.
Exited == pc \in {"done", "raised"}

\* C12: the driver session that scrape acquires is released on every way out
\* of scrape: at the end of a run with a usable page, at the end of a run whose
\* navigation failed, and when an exception leaves scrape after the session
\* was opened; until then it is held. The end of the block also closes the
\* browser.
C12_SessionReleased ==
    /\ Exited => playwright = "stopped"
    /\ pc = "done" => browser = "closed"
    /\ ~Exited => playwright = "started" /\ browser = "open"

\* the sort raised on the records of a run whose navigation had failed.
C12_Witness ==
    /\ pc = "raised"
    /\ ~ok
    /\ sort_input # <<>>
    /\ playwright = "stopped"


\* the number of unique ids among all records extracted so far, whether or
\* not they pass the filter.
RawCount == Cardinality(DOMAIN last_seen)

\* the records extracted so far, the latest of each id, that pass the filter.
PassingSeen == {r \in {last_seen[k] : k \in DOMAIN last_seen} : query = <<>> \/ Matches(r)}

\* C13: the filter is evaluated only after the loop has ended, once, over all
\* deduplicated records: nothing is filtered while the run is in the loop, a
\* cycle resets the idle counter exactly when the raw number of unique ids
\* grew and breaks exactly when that number reached max_posts, every
\* extracted id is stored whether or not its record passes, and the filter
\* step keeps exactly the stored records that pass.
C13_FilterAfterLoop ==
    [][ /\ pc' \notin {"sort", "done", "raised"} => posts_list' = <<>>
        /\ (pc = "loop" /\ cycles' = cycles + 1) =>
              /\ Len(collected') = RawCount'
              /\ idle_rounds' = (IF RawCount' > RawCount THEN 0 ELSE idle_rounds + 1)
              /\ (pc' = "filter") = (RawCount' >= max_posts)
        /\ (pc = "filter" /\ pc' = "sort") =>
              /\ {posts_list'[i] : i \in 1..Len(posts_list')} = PassingSeen
              /\ Len(posts_list') = Cardinality(PassingSeen) ]_vars

\* a record that fails the filter was counted: the loop broke at max_posts = 2
\* unique ids in the cycle that first saw them, and one record passed.
C13_Witness ==
    /\ pc = "sort"
    /\ query # <<>>
    /\ max_posts = 2 /\ Len(collected) = 2
    /\ cycles = 1 /\ idle_rounds = 0
    /\ Len(posts_list) = 1


\* the filter of lines 183-194 was applied as a regex whose pattern does not
\* compile.
InvalidRegexRun == query # <<>> /\ regex /\ ~exact /\ ~RegexValid(query)

\* C14: in regex mode with a pattern that does not compile the filter keeps no
\* record of the collected set and raises nothing: the run goes on to the
\* sort, which does not raise on the empty list, and writes an artifact with
\* count 0.
C14_InvalidRegexMatchesNothing ==
    InvalidRegexRun =>
        /\ pc # "raised"
        /\ pc \in {"sort", "done"} => posts_list = <<>>
        /\ pc = "sort" => ~SortRaises(posts_list)
        /\ pc = "done" => Written /\ artifact[1].count = 0 /\ artifact[1].posts = <<>>

\* two records were collected, one of them with the pattern as its text, and
\* the artifact was written with count 0.
C14_Witness ==
    /\ InvalidRegexRun
    /\ pc = "done"
    /\ Len(collected) = 2
    /\ \E i \in 1..Len(collected) : collected[i].value.text = query
    /\ Written /\ artifact[1].count = 0

\* the words of s: its maximal runs of characters other than whitespace, in
\* lower case.
RECURSIVE Words(_)
Words(s) ==
    IF s = <<>> THEN <<>>
    ELSE IF IsSpace(Head(s)) THEN Words(Tail(s))
    ELSE LET n == CHOOSE k \in 1..Len(s) :
                      /\ \A i \in 1..k : ~IsSpace(s[i])
                      /\ k = Len(s) \/ IsSpace(s[k + 1])
         IN  <<LowerStr(SubSeq(s, 1, n))>> \o Words(SubSeq(s, n + 1, Len(s)))

\* the words, one space between two of them.
RECURSIVE JoinWords(_)
JoinWords(ws) ==
    IF ws = <<>> THEN <<>>
    ELSE IF Len(ws) = 1 THEN ws[1]
    ELSE ws[1] \o <<" ">> \o JoinWords(Tail(ws))

\* the whitespace-collapsed, trimmed, case-folded form of s.
Normalized(s) == JoinWords(Words(s))

\* the record collected at place i is among the filtered posts.
KeptByFilter(i) == InSeq(collected[i].value, posts_list)

\* C15: when the filter is applied (a non-empty query), a record is kept in
\* substring mode iff the normalized query is a substring of its normalized
\* text, and in exact mode iff the two normalized strings are equal; so what
\* exact mode keeps substring mode keeps too, and a query whose normalized
\* form is a proper prefix of the normalized text is kept in substring mode
\* and not in exact mode.
C15_SubstringAndExact ==
    (pc = "sort" /\ query # <<>>) =>
        /\ (~exact /\ ~regex) =>
              \A i \in 1..Len(collected) :
                  KeptByFilter(i)
                    <=> Contains(Normalized(query), Normalized(collected[i].value.text))
        /\ exact =>
              \A i \in 1..Len(collected) :
                  KeptByFilter(i)
                    <=> Normalized(collected[i].value.text) = Normalized(query)

\* exact mode kept a text that equals the query only after normalization and
\* dropped a text of which the normalized query is a proper prefix.
C15_Witness ==
    /\ pc = "sort" /\ query # <<>> /\ exact
    /\ Len(collected) = 2
    /\ \E i, j \in 1..Len(collected) :
          /\ KeptByFilter(i) /\ collected[i].value.text # query
          /\ ~KeptByFilter(j)
          /\ Len(Normalized(collected[j].value.text)) > Len(Normalized(query))
          /\ SubSeq(Normalized(collected[j].value.text), 1, Len(Normalized(query)))
                = Normalized(query)


\* the source is excluded by the rule of the claim: it contains the avatar
\* path marker, or "avatar" in any letter case.
SrcExcluded(src) ==
    \/ Contains(<<"profile_images">>, src)
    \/ Contains(<<"avatar">>, LowerStr(src))

\* the alt text is excluded by the rule of the claim.
AltExcluded(alt) == Contains(<<"avatar">>, LowerStr(alt))

\* C16: an image is excluded when its source contains the avatar path marker
\* or when its source or its alt text contains "avatar" in any letter case: no
\* source that the rule excludes is among the images of the record, every
\* source among them comes from an image that the rule does not exclude, and
\* the images hold no duplicate and no empty source.
C16_AvatarImagesExcluded ==
    (pc \in {"merge", "merged"} /\ Len(batch_out) = 1) =>
        LET images == batch_out[1].images
            imgs   == batch_in[1].imgs
        IN  /\ \A k \in 1..Len(images) :
                  /\ images[k] # <<>>
                  /\ ~SrcExcluded(images[k])
                  /\ \E m \in 1..Len(imgs) :
                        /\ OrEmpty(imgs[m].src) = images[k]
                        /\ ~AltExcluded(OrEmpty(imgs[m].alt))
                  /\ \A m \in 1..Len(images) : m # k => images[m] # images[k]


\* the places of the anchors of container a whose href contains "/status/".
MarkerLinks(a) ==
    {m \in 1..Len(a.anchors) : a.anchors[m] # None /\ Contains(StatusMarker, a.anchors[m])}

\* the href of the first of them.
FirstMarkerHref(a) ==
    a.anchors[CHOOSE m \in MarkerLinks(a) : \A n \in MarkerLinks(a) : m <= n]

\* the final path segment of h, trailing slashes removed: what stands between
\* the last "/" before the last token other than "/" and that token.
FinalSegment(h) ==
    LET body  == {n \in 1..Len(h) : h[n] # "/"}
        last  == CHOOSE n \in body : \A m \in body : m <= n
        cuts  == {n \in 1..last : h[n] = "/"}
        start == IF cuts = {} THEN 0 ELSE CHOOSE n \in cuts : \A m \in cuts : m <= n
    IN  IF body = {} THEN <<>> ELSE SubSeq(h, start + 1, last)

\* the containers of the batch that have a status link.
Linked == {j \in 1..Len(batch_in) : MarkerLinks(batch_in[j]) # {}}

\* C17: a container without a link whose href contains "/status/" gives no
\* record; every record extracted, and every record that enters the collected
\* map, has a non-empty id that is the final path segment, trailing slashes
\* removed, of the first such link of its container, and stands in the map
\* under that id.
C17_IdFromFirstStatusLink ==
    /\ pc \in {"merge", "merged"} =>
          /\ Len(batch_out) <= Cardinality(Linked)
          /\ \A k \in 1..Len(batch_out) :
                /\ batch_out[k].id # <<>>
                /\ \E j \in Linked :
                      /\ batch_out[k].id = FinalSegment(FirstMarkerHref(batch_in[j]))
                      /\ batch_out[k].permalink
                            = <<"https://x.com">> \o FirstMarkerHref(batch_in[j])
    /\ pc = "merged" =>
          /\ \A i \in 1..Len(collected) :
                /\ collected[i].key = collected[i].value.id
                /\ collected[i].key # <<>>
                /\ InSeq(collected[i].value, batch_out)
          /\ \A k \in 1..Len(batch_out) :
                \E i \in 1..Len(collected) : collected[i].key = batch_out[k].id

\* a container without status link and one whose first status link ends in
\* slashes and is followed by another status link: one record, stored under
\* the id of the first link.
C17_Witness ==
    /\ pc = "merged"
    /\ Len(batch_in) = 2
    /\ Cardinality(Linked) = 1
    /\ \E j \in Linked :
          /\ Cardinality(MarkerLinks(batch_in[j])) = 2
          /\ FirstMarkerHref(batch_in[j])[Len(FirstMarkerHref(batch_in[j]))] = "/"
    /\ Len(collected) = 1
    /\ collected[1].key = <<"2">>


\* the step neither backs off nor starts an attempt.
SameAttempt == attempt' = attempt /\ sleeps' = sleeps /\ failed' = failed

\* the step ends the attempt as a failed one: it backs off and goes to the
\* head of the for loop.
AttemptFailed ==
    /\ pc' = "nav"
    /\ attempt' = attempt
    /\ failed' = failed + 1
    /\ Len(sleeps') = Len(sleeps) + 1

\* C18: within one attempt the fallback load is issued only after the primary
\* load of that attempt timed out, and then at once, before any back-off and
\* before the next attempt; another failure of the primary load ends the
\* attempt without fallback; the fallback load alone does not end the
\* attempt with success: the bounded wait follows it in the same attempt,
\* and only when the wait completes too does the attempt succeed.
C18_FallbackAfterPrimaryTimeout ==
    [][ /\ pc = "goto" =>
              \/ pc' = "returned" /\ ok' /\ SameAttempt
              \/ pc' = "fallback" /\ last_failure' = <<"goto", "timeout">> /\ SameAttempt
              \/ AttemptFailed /\ last_failure' = <<"goto", "error">>
        /\ pc' = "fallback" => pc = "goto"
        /\ pc = "fallback" =>
              \/ pc' = "wait" /\ SameAttempt /\ ok' = ok
              \/ AttemptFailed /\ last_failure'[1] = "fallback"
        /\ pc' = "wait" => pc = "fallback"
        /\ pc = "wait" =>
              \/ pc' = "returned" /\ ok' /\ SameAttempt
              \/ AttemptFailed /\ last_failure'[1] = "wait"
        /\ attempt' # attempt => pc = "nav" ]_vars

\* the second attempt succeeded through its fallback: the primary load timed
\* out, the fallback load and the wait completed, after one back-off.
C18_Witness ==
    /\ pc = "returned"
    /\ ok
    /\ attempt = 2
    /\ last_failure = <<"goto", "timeout">>
    /\ sleeps = <<2>>


\* the step is the body of a cycle up to its break.
CycleStep == pc = "loop" /\ cycles' = cycles + 1

\* C19: in every cycle the idle counter goes up by one when the number of
\* unique ids after the merge equals the number after the previous cycle and
\* back to zero otherwise; a cycle after whose merge that number is at least
\* max_posts issues no scroll command: the loop ends before the scroll, and a
\* scroll command is only issued below max_posts.
C19_IdleUpdateAndBreak ==
    [][ /\ CycleStep =>
              /\ idle_rounds' = (IF Len(collected') = Len(collected)
                                  THEN idle_rounds + 1 ELSE 0)
              /\ scroll_cmds' = scroll_cmds
              /\ Len(collected') >= max_posts => pc' = "filter"
              /\ Len(collected') < max_posts => pc' = "scroll"
        /\ scroll_cmds' # scroll_cmds =>
              /\ pc = "scroll"
              /\ Len(collected) < max_posts
              /\ scroll_cmds' = scroll_cmds + 1 ]_vars

\* the third cycle reached max_posts after an idle second cycle: the idle
\* counter is back at zero and the loop ended with two scrolls, not three.
C19_Witness ==
    /\ pc = "filter"
    /\ max_posts = 2 /\ Len(collected) = 2
    /\ cycles = 3 /\ scroll_cmds = 2
    /\ idle_rounds = 0
    /\ event.scroll = "none"

\* C20: the scroll counter equals the number of scroll commands attempted, a
\* failed one included, and never exceeds max_scrolls; when the loop ends by
\* the scroll budget or the idle limit after at least one cycle, its last
\* action was a scroll and there were as many scrolls as queries, so what the
\* last scroll rendered was never queried; with max_scrolls = 0 nothing is
\* queried and the artifact is empty.
C20_ScrollCounter ==
    /\ scrolls = scroll_cmds
    /\ scrolls <= max_scrolls
    /\ (pc = "filter" /\ Len(collected) < max_posts /\ cycles > 0) =>
          /\ event.scroll \in {"ok", "failed"}
          /\ scroll_cmds = cycles
    /\ max_scrolls = 0 =>
          /\ cycles = 0 /\ collected = <<>>
          /\ Written => artifact[1].count = 0 /\ artifact[1].posts = <<>>

\* the scroll budget ran out with a scroll that failed: it was counted, and
\* the loop ended after it below the target and below the idle limit.
C20_Witness ==
    /\ pc = "filter"
    /\ Len(collected) < max_posts
    /\ max_scrolls > 0 /\ scrolls = max_scrolls
    /\ idle_rounds < IdleLimit
    /\ event.scroll = "failed"
    /\ cycles = max_scrolls

====
